---- MODULE Spec2Model ----
(***************************************************************************)
(* Model of src/src/arbitrage_core.rs (ArbitrageCore): opportunity         *)
(* validation, the price-impact model, the transaction builder and the     *)
(* cross-chain execution flow with its confirmation wait.                  *)
(*                                                                         *)
(* One behaviour is one call of one public operation of ArbitrageCore      *)
(* (variable op), with arguments drawn from bounded sample sets.           *)
(***************************************************************************)
EXTENDS Integers, Sequences, FiniteSets, TLC

VARIABLES
    op,               \* the operation invoked: "validate", "impact", "build", "execute"
    opportunity,      \* argument of validate_opportunity / execute_cross_chain_arbitrage
    pi_args,          \* arguments (amount, liquidity) of calculate_price_impact
    tx_args,          \* arguments of secure_transaction_builder
    pc,               \* position of the call
    ret,              \* the value the call returned (meaningful once pc is terminal)
    validated,        \* "none", or "accepted" / "rejected" by validate_opportunity in execute
    source_tx_hash,   \* local of execute_cross_chain_arbitrage
    bridge_tx_hash,   \* local of execute_cross_chain_arbitrage
    target_tx_hash,   \* local of execute_cross_chain_arbitrage
    elapsed,          \* start.elapsed() of wait_for_confirmation, in seconds
    confirmed,        \* TRUE once a confirmation check has succeeded
    calls,            \* number of calls made to each collaborator
    collab_err,       \* "none", or the error a collaborator call has returned
    cancel_requested  \* the caller has asked to cancel the confirmation wait

vars == <<op, opportunity, pi_args, tx_args, pc, ret, validated, source_tx_hash,
          bridge_tx_hash, target_tx_hash, elapsed, confirmed, calls, collab_err,
          cancel_requested>>

(***************************************************************************)
(* Bounds of the model.                                                    *)
(***************************************************************************)
\* rand::random::<u64>() draws from 0..MaxRand
MaxRand == 1
\* a sleep of 10 s may overshoot by 0..MaxJitter seconds
MaxJitter == 1

(***************************************************************************)
(* f64 values: NaN, the two infinities, and exact rationals n/d (d > 0).   *)
(* Rounding is not modelled; comparisons and NaN propagation are IEEE 754. *)
(***************************************************************************)
NaN == [k |-> "nan", n |-> 0, d |-> 1]

PInf == [k |-> "inf", n |-> 1, d |-> 1]

NInf == [k |-> "inf", n |-> -1, d |-> 1]

Fin(n, d) == IF d < 0 THEN [k |-> "fin", n |-> -n, d |-> -d]
                      ELSE [k |-> "fin", n |-> n, d |-> d]

IsNaN(a) == a.k = "nan"

\* a < b on f64: false whenever an operand is NaN
FLt(a, b) ==
    IF IsNaN(a) \/ IsNaN(b) THEN FALSE
    ELSE IF a.k = "inf" /\ b.k = "inf" THEN a.n < b.n
    ELSE IF a.k = "inf" THEN a.n < 0
    ELSE IF b.k = "inf" THEN b.n > 0
    ELSE a.n * b.d < b.n * a.d

\* a == b on f64: false whenever an operand is NaN
FEq(a, b) ==
    IF IsNaN(a) \/ IsNaN(b) THEN FALSE
    ELSE IF a.k = "inf" \/ b.k = "inf" THEN a.k = b.k /\ a.n = b.n
    ELSE a.n * b.d = b.n * a.d

FLe(a, b) == FLt(a, b) \/ FEq(a, b)

FGt(a, b) == FLt(b, a)

FGe(a, b) == FLe(b, a)

\* a + b on f64
FAdd(a, b) ==
    IF IsNaN(a) \/ IsNaN(b) THEN NaN
    ELSE IF a.k = "inf" /\ b.k = "inf" THEN (IF a.n = b.n THEN a ELSE NaN)
    ELSE IF a.k = "inf" THEN a
    ELSE IF b.k = "inf" THEN b
    ELSE Fin(a.n * b.d + b.n * a.d, a.d * b.d)

\* a / b on f64 (a zero divisor is +0.0, the only zero x + (-x) produces)
FDiv(a, b) ==
    IF IsNaN(a) \/ IsNaN(b) THEN NaN
    ELSE IF a.k = "inf" /\ b.k = "inf" THEN NaN
    ELSE IF a.k = "inf" THEN (IF b.n < 0 THEN [a EXCEPT !.n = -a.n] ELSE a)
    ELSE IF b.k = "inf" THEN Fin(0, 1)
    ELSE IF b.n = 0 THEN (IF a.n = 0 THEN NaN ELSE IF a.n > 0 THEN PInf ELSE NInf)
    ELSE Fin(a.n * b.d, a.d * b.n)

\* u128 as f64 (exact for the liquidities of the model)
U128AsF64(u) == Fin(u, 1)

(***************************************************************************)
(* Strings are sequences of one-character strings.                         *)
(***************************************************************************)
Rep(c, n) == [i \in 1..n |-> c]

HexDigits == {"0", "1", "2", "3", "4", "5", "6", "7", "8", "9",
              "a", "b", "c", "d", "e", "f", "A", "B", "C", "D", "E", "F"}

\* char::is_ascii_hexdigit
is_ascii_hexdigit(c) == c \in HexDigits

\* str::starts_with("0x")
StartsWith0x(s) == Len(s) >= 2 /\ s[1] = "0" /\ s[2] = "x"

\* ArbitrageCore::is_valid_address
is_valid_address(address) ==
    IF ~StartsWith0x(address) \/ Len(address) # 42
    THEN FALSE
    ELSE \A i \in 3..Len(address) : is_ascii_hexdigit(address[i])

\* ArbitrageCore::new: max_slippage = 0.02
max_slippage == Fin(2, 100)

\* the literal 0.7 of validate_opportunity
confidence_threshold == Fin(7, 10)

\* ArbitrageCore::calculate_price_impact
calculate_price_impact(amount, liquidity) ==
    IF FLe(liquidity, Fin(0, 1))
    THEN Fin(1, 1)
    ELSE FDiv(amount, FAdd(liquidity, amount))

\* Result<T, Box<dyn Error>>
Ok(v) == [ok |-> TRUE, val |-> v]

Err(e) == [ok |-> FALSE, err |-> e]

IsErr(r, e) == ~r.ok /\ r.err = e


\* ArbitrageCore::validate_opportunity (the four checks, in the order of the code)
validate_opportunity(o) ==
    IF FLe(o.net_profit, Fin(0, 1)) THEN Ok(FALSE)
    ELSE IF FLt(o.confidence, confidence_threshold) THEN Ok(FALSE)
    ELSE IF ~is_valid_address(o.source_pool.address)
            \/ ~is_valid_address(o.target_pool.address) THEN Ok(FALSE)
    ELSE IF FGt(calculate_price_impact(o.required_amount,
                                       U128AsF64(o.source_pool.liquidity)),
                max_slippage) THEN Ok(FALSE)
    ELSE Ok(TRUE)

(***************************************************************************)
(* u64 values are hi * 10^9 + lo with 0 <= lo < 10^9, compared             *)
(* lexicographically, so that 500_000_000_000 is representable.            *)
(***************************************************************************)
U64(hi, lo) == [hi |-> hi, lo |-> lo]

U64Lt(a, b) == a.hi < b.hi \/ (a.hi = b.hi /\ a.lo < b.lo)

U64Gt(a, b) == U64Lt(b, a)

\* the literal 21_000 of secure_transaction_builder
min_gas_limit == U64(0, 21000)

\* the literal 500_000_000_000u64 of secure_transaction_builder
max_gas_price == U64(500, 0)

ToLower(c) ==
    CASE c = "A" -> "a" [] c = "B" -> "b" [] c = "C" -> "c"
      [] c = "D" -> "d" [] c = "E" -> "e" [] c = "F" -> "f"
      [] OTHER -> c

\* to.parse::<Address>(): an optional "0x", then exactly 40 hex digits; the
\* parsed address is the 20 bytes they denote (here: the digits in lower case)
ParseAddress(to) ==
    LET body == IF StartsWith0x(to) THEN SubSeq(to, 3, Len(to)) ELSE to
    IN  IF Len(body) = 40 /\ \A i \in 1..Len(body) : is_ascii_hexdigit(body[i])
        THEN Ok([i \in 1..40 |-> ToLower(body[i])])
        ELSE Err("parse error")

\* secure_transaction_builder with the gas floor test off by one (<= for <)
secure_transaction_builder_FloorExclusive(to, value, data, gas_limit, gas_price, nonce) ==
    LET to_address == ParseAddress(to)
    IN  IF ~to_address.ok THEN Err("Invalid destination address")
        ELSE IF ~U64Gt(gas_limit, min_gas_limit) THEN Err("Gas limit too low")
        ELSE IF U64Gt(gas_price, max_gas_price) THEN Err("Gas price too high")
        ELSE Ok([to |-> to_address.val, value |-> value, gas_limit |-> gas_limit,
                 gas_price |-> gas_price, data |-> data, nonce |-> nonce])

\* ArbitrageCore::secure_transaction_builder
secure_transaction_builder(to, value, data, gas_limit, gas_price, nonce) ==
    LET to_address == ParseAddress(to)
    IN  IF ~to_address.ok THEN Err("Invalid destination address")
        ELSE IF U64Lt(gas_limit, min_gas_limit) THEN Err("Gas limit too low")
        ELSE IF U64Gt(gas_price, max_gas_price) THEN Err("Gas price too high")
        ELSE Ok([to |-> to_address.val, value |-> value, gas_limit |-> gas_limit,
                 gas_price |-> gas_price, data |-> data, nonce |-> nonce])

(***************************************************************************)
(* Transaction references.                                                 *)
(***************************************************************************)
HexChar(v) == <<"0", "1", "2", "3", "4", "5", "6", "7", "8", "9",
                "a", "b", "c", "d", "e", "f">>[v + 1]

Pow16(e) == IF e = 0 THEN 1 ELSE IF e = 1 THEN 16 ELSE IF e = 2 THEN 256 ELSE 4096

\* format!("0x{:064x}", r): "0x" and 64 hex digits, zero padded (r < 16^4 here)
FormatHash(r) ==
    <<"0", "x">> \o [i \in 1..64 |->
        IF 64 - i > 3 THEN "0" ELSE HexChar((r \div Pow16(64 - i)) % 16)]

\* rand::random::<u64>()
RandU64 == 0..MaxRand

\* the errors a collaborator call may return
CollaboratorErrors == {"reverted", "unavailable"}

\* ArbitrageCore::execute_trade: the values its Result can take. The stand-in
\* body always returns Ok(format!(..)); Err is the other value of the declared
\* return type, the one the `?` of the caller propagates.
execute_trade_results == {Ok(FormatHash(r)) : r \in RandU64} \cup {Err(e) : e \in CollaboratorErrors}

\* ArbitrageCore::bridge_tokens: as for execute_trade
bridge_tokens_results == {Ok(FormatHash(r)) : r \in RandU64} \cup {Err(e) : e \in CollaboratorErrors}

\* the timeout_seconds execute_cross_chain_arbitrage passes to wait_for_confirmation
timeout_seconds == 600

\* sleep(Duration::from_secs(10)) of wait_for_confirmation
poll_interval == 10


(***************************************************************************)
(* Sample arguments.                                                       *)
(***************************************************************************)
AddrValid == <<"0", "x">> \o Rep("a", 40)

AddrUpper == <<"0", "x">> \o Rep("A", 20) \o Rep("9", 20)

AddrShort == <<"0", "x">> \o Rep("a", 39)

AddrNonHex == <<"0", "x">> \o Rep("a", 39) \o <<"g">>

AddrNoPrefix == Rep("a", 42)

AddrBare40 == Rep("b", 40)

AddrEmpty == <<>>

NetProfits == {Fin(-1, 1), Fin(0, 1), Fin(1, 1), NaN}

Confidences == {Fin(69, 100), Fin(7, 10), Fin(9, 10), NaN}

Amounts == {Fin(-98, 1), Fin(-50, 1), Fin(2, 1), Fin(3, 1), Fin(500, 1), NaN, PInf}

Liquidities == {0, 98, 100000}

\* the fields of ArbitrageOpportunity and PoolInfo the operations read
Opportunities ==
    [source_pool : [address : {AddrValid, AddrShort, AddrNonHex},
                    network : {"polygon"},
                    liquidity : Liquidities],
     target_pool : [address : {AddrUpper, AddrNoPrefix},
                    network : {"base"}],
     required_amount : Amounts,
     net_profit : NetProfits,
     confidence : Confidences]

\* the opportunities execute_cross_chain_arbitrage is run on
ExecOpportunities ==
    {o \in Opportunities :
        /\ o.source_pool.liquidity = 98
        /\ o.required_amount \in {Fin(2, 1), Fin(3, 1)}
        /\ o.net_profit \in {Fin(0, 1), Fin(1, 1), NaN}
        /\ o.confidence \in {Fin(69, 100), Fin(7, 10)}}

ImpactArgs ==
    [amount : Amounts \cup {Fin(-200, 1), Fin(0, 1), NInf},
     liquidity : {Fin(-1, 1), Fin(0, 1), Fin(98, 1), Fin(100000, 1), NaN, PInf}]

TxArgs ==
    [to : {AddrValid, AddrUpper, AddrBare40, AddrShort, AddrNonHex, AddrNoPrefix, AddrEmpty},
     value : {U64(0, 0), U64(1, 5)},
     data : {<<>>, <<18, 52>>},
     gas_limit : {U64(0, 0), U64(0, 20999), U64(0, 21000), U64(0, 21001), U64(1, 0)},
     gas_price : {U64(0, 0), U64(0, 21000), U64(499, 999999999), U64(500, 0),
                  U64(500, 1), U64(501, 0)},
     nonce : {U64(0, 7)}]

NoOpportunity == CHOOSE o \in Opportunities : TRUE

NoImpactArgs == CHOOSE a \in ImpactArgs : TRUE

NoTxArgs == CHOOSE a \in TxArgs : TRUE

NoHash == <<>>

Pending == Err("pending")

Terminal == {"Returned", "Rejected", "Failed", "Completed"}

(***************************************************************************)
(* The state after the caller has chosen an operation and its arguments.   *)
(***************************************************************************)
Init ==
    /\ op \in {"validate", "impact", "build", "execute"}
    /\ opportunity \in (IF op = "validate" THEN Opportunities
                        ELSE IF op = "execute" THEN ExecOpportunities
                        ELSE {NoOpportunity})
    /\ pi_args \in (IF op = "impact" THEN ImpactArgs ELSE {NoImpactArgs})
    /\ tx_args \in (IF op = "build" THEN TxArgs ELSE {NoTxArgs})
    /\ pc = "Start"
    /\ ret = Pending
    /\ validated = "none"
    /\ source_tx_hash = NoHash
    /\ bridge_tx_hash = NoHash
    /\ target_tx_hash = NoHash
    /\ elapsed = 0
    /\ confirmed = FALSE
    /\ calls = [sell |-> 0, bridge |-> 0, poll |-> 0, buy |-> 0]
    /\ collab_err = "none"
    /\ cancel_requested = FALSE

args == <<op, opportunity, pi_args, tx_args>>

flow == <<validated, source_tx_hash, bridge_tx_hash, target_tx_hash, elapsed,
          confirmed, calls, collab_err, cancel_requested>>

\* a call of validate_opportunity (also what validate_opportunity_ffi runs)
CallValidate ==
    /\ op = "validate" /\ pc = "Start"
    /\ ret' = validate_opportunity(opportunity)
    /\ pc' = "Returned"
    /\ UNCHANGED <<args, flow>>

\* a call of calculate_price_impact
CallImpact ==
    /\ op = "impact" /\ pc = "Start"
    /\ ret' = Ok(calculate_price_impact(pi_args.amount, pi_args.liquidity))
    /\ pc' = "Returned"
    /\ UNCHANGED <<args, flow>>

\* a call of secure_transaction_builder
CallBuild ==
    /\ op = "build" /\ pc = "Start"
    /\ ret' = secure_transaction_builder(tx_args.to, tx_args.value, tx_args.data,
                                         tx_args.gas_limit, tx_args.gas_price,
                                         tx_args.nonce)
    /\ pc' = "Returned"
    /\ UNCHANGED <<args, flow>>

(***************************************************************************)
(* execute_cross_chain_arbitrage, one action per external call.            *)
(***************************************************************************)
\* Validate that does not return on a rejected opportunity
Validate_NoReject ==
    /\ op = "execute" /\ pc = "Start"
    /\ LET v == validate_opportunity(opportunity)
       IN  validated' = (IF v.val THEN "accepted" ELSE "rejected")
    /\ pc' = "SourceTrading"
    /\ UNCHANGED <<args, ret, source_tx_hash, bridge_tx_hash, target_tx_hash,
                   elapsed, confirmed, calls, collab_err, cancel_requested>>

\* lines 162-165: validate first, reject with an error
Validate ==
    /\ op = "execute" /\ pc = "Start"
    /\ LET v == validate_opportunity(opportunity)
       IN  /\ validated' = (IF v.val THEN "accepted" ELSE "rejected")
           /\ IF ~v.val
              THEN /\ ret' = Err("Opportunity validation failed")
                   /\ pc' = "Rejected"
              ELSE /\ pc' = "SourceTrading"
                   /\ UNCHANGED ret
    /\ UNCHANGED <<args, source_tx_hash, bridge_tx_hash, target_tx_hash, elapsed,
                   confirmed, calls, collab_err, cancel_requested>>

\* SourceTrade that drops the error of the sell and goes on to the bridge
SourceTrade_SwallowError ==
    /\ op = "execute" /\ pc = "SourceTrading"
    /\ calls' = [calls EXCEPT !.sell = @ + 1]
    /\ \E r \in execute_trade_results :
         IF r.ok
         THEN /\ source_tx_hash' = r.val
              /\ UNCHANGED collab_err
         ELSE /\ collab_err' = r.err
              /\ UNCHANGED source_tx_hash
    /\ pc' = "Bridging"
    /\ UNCHANGED <<args, ret, validated, bridge_tx_hash, target_tx_hash, elapsed,
                   confirmed, cancel_requested>>

\* lines 167-173: execute_trade(.., "sell").await?
SourceTrade ==
    /\ op = "execute" /\ pc = "SourceTrading"
    /\ calls' = [calls EXCEPT !.sell = @ + 1]
    /\ \E r \in execute_trade_results :
         IF r.ok
         THEN /\ source_tx_hash' = r.val
              /\ pc' = "Bridging"
              /\ UNCHANGED <<ret, collab_err>>
         ELSE /\ ret' = r
              /\ collab_err' = r.err
              /\ pc' = "Failed"
              /\ UNCHANGED source_tx_hash
    /\ UNCHANGED <<args, validated, bridge_tx_hash, target_tx_hash, elapsed,
                   confirmed, cancel_requested>>

\* lines 175-180: bridge_tokens(..).await?, then wait_for_confirmation starts
\* its clock (line 214)
BridgeTokens ==
    /\ op = "execute" /\ pc = "Bridging"
    /\ calls' = [calls EXCEPT !.bridge = @ + 1]
    /\ \E r \in bridge_tokens_results :
         IF r.ok
         THEN /\ bridge_tx_hash' = r.val
              /\ pc' = "ConfirmingBridge"
              /\ UNCHANGED <<ret, collab_err>>
         ELSE /\ ret' = r
              /\ collab_err' = r.err
              /\ pc' = "Failed"
              /\ UNCHANGED bridge_tx_hash
    /\ elapsed' = 0
    /\ UNCHANGED <<args, validated, source_tx_hash, target_tx_hash, confirmed,
                   cancel_requested>>

\* WaitCheck that goes on to the target trade after an unconfirmed check
WaitCheck_ProceedUnconfirmed ==
    /\ op = "execute" /\ pc = "ConfirmingBridge"
    /\ IF elapsed < timeout_seconds
       THEN /\ calls' = [calls EXCEPT !.poll = @ + 1]
            /\ \E finalized \in BOOLEAN :
                 confirmed' = finalized /\ pc' = "TargetTrading"
            /\ UNCHANGED ret
       ELSE /\ ret' = Err("Transaction confirmation timeout")
            /\ pc' = "Failed"
            /\ UNCHANGED <<calls, confirmed>>
    /\ UNCHANGED <<args, validated, source_tx_hash, bridge_tx_hash, target_tx_hash,
                   elapsed, collab_err, cancel_requested>>

\* WaitCheck that gives up when the next sleep would pass the deadline
WaitCheck_EarlyTimeout ==
    /\ op = "execute" /\ pc = "ConfirmingBridge"
    /\ IF elapsed + poll_interval < timeout_seconds
       THEN /\ calls' = [calls EXCEPT !.poll = @ + 1]
            /\ \E finalized \in BOOLEAN :
                 IF finalized
                 THEN confirmed' = TRUE /\ pc' = "TargetTrading"
                 ELSE confirmed' = FALSE /\ pc' = "Sleeping"
            /\ UNCHANGED ret
       ELSE /\ ret' = Err("Transaction confirmation timeout")
            /\ pc' = "Failed"
            /\ UNCHANGED <<calls, confirmed>>
    /\ UNCHANGED <<args, validated, source_tx_hash, bridge_tx_hash, target_tx_hash,
                   elapsed, collab_err, cancel_requested>>

\* WaitCheck that answers a timeout by submitting the bridge transfer again
WaitCheck_RetryBridge ==
    /\ op = "execute" /\ pc = "ConfirmingBridge"
    /\ IF elapsed < timeout_seconds
       THEN /\ calls' = [calls EXCEPT !.poll = @ + 1]
            /\ \E finalized \in BOOLEAN :
                 IF finalized
                 THEN confirmed' = TRUE /\ pc' = "TargetTrading"
                 ELSE confirmed' = FALSE /\ pc' = "Sleeping"
       ELSE /\ pc' = "Bridging"
            /\ UNCHANGED <<calls, confirmed>>
    /\ UNCHANGED <<args, ret, validated, source_tx_hash, bridge_tx_hash,
                   target_tx_hash, elapsed, collab_err, cancel_requested>>

\* lines 217-222 and 227: the loop test of wait_for_confirmation, then either
\* one confirmation check (rand::random::<f64>() > 0.9) or the timeout error
\* that the `?` of line 183 returns to the caller
WaitCheck ==
    /\ op = "execute" /\ pc = "ConfirmingBridge"
    /\ IF elapsed < timeout_seconds
       THEN /\ calls' = [calls EXCEPT !.poll = @ + 1]
            /\ \E finalized \in BOOLEAN :
                 IF finalized
                 THEN confirmed' = TRUE /\ pc' = "TargetTrading"
                 ELSE confirmed' = FALSE /\ pc' = "Sleeping"
            /\ UNCHANGED ret
       ELSE /\ ret' = Err("Transaction confirmation timeout")
            /\ pc' = "Failed"
            /\ UNCHANGED <<calls, confirmed>>
    /\ UNCHANGED <<args, validated, source_tx_hash, bridge_tx_hash, target_tx_hash,
                   elapsed, collab_err, cancel_requested>>

\* line 224: sleep(Duration::from_secs(10)).await lasts at least 10 seconds
Sleep ==
    /\ op = "execute" /\ pc = "Sleeping"
    /\ \E jitter \in 0..MaxJitter : elapsed' = elapsed + poll_interval + jitter
    /\ pc' = "ConfirmingBridge"
    /\ UNCHANGED <<args, ret, validated, source_tx_hash, bridge_tx_hash,
                   target_tx_hash, confirmed, calls, collab_err, cancel_requested>>

\* TargetTrade that returns the reference of the source trade
TargetTrade_ReturnsSource ==
    /\ op = "execute" /\ pc = "TargetTrading"
    /\ calls' = [calls EXCEPT !.buy = @ + 1]
    /\ \E r \in execute_trade_results :
         IF r.ok
         THEN /\ target_tx_hash' = r.val
              /\ ret' = Ok(source_tx_hash)
              /\ pc' = "Completed"
              /\ UNCHANGED collab_err
         ELSE /\ ret' = r
              /\ collab_err' = r.err
              /\ pc' = "Failed"
              /\ UNCHANGED target_tx_hash
    /\ UNCHANGED <<args, validated, source_tx_hash, bridge_tx_hash, elapsed,
                   confirmed, cancel_requested>>

\* lines 185-193: execute_trade(.., "buy").await?, Ok(target_tx_hash)
TargetTrade ==
    /\ op = "execute" /\ pc = "TargetTrading"
    /\ calls' = [calls EXCEPT !.buy = @ + 1]
    /\ \E r \in execute_trade_results :
         IF r.ok
         THEN /\ target_tx_hash' = r.val
              /\ ret' = Ok(r.val)
              /\ pc' = "Completed"
              /\ UNCHANGED collab_err
         ELSE /\ ret' = r
              /\ collab_err' = r.err
              /\ pc' = "Failed"
              /\ UNCHANGED target_tx_hash
    /\ UNCHANGED <<args, validated, source_tx_hash, bridge_tx_hash, elapsed,
                   confirmed, cancel_requested>>

\* The caller asks to cancel a flow that is suspended in the sleep of the
\* confirmation wait. No line of execute_cross_chain_arbitrage or
\* wait_for_confirmation reads the request.
RequestCancel ==
    /\ op = "execute" /\ pc = "Sleeping"
    /\ ~cancel_requested
    /\ cancel_requested' = TRUE
    /\ UNCHANGED <<args, pc, ret, validated, source_tx_hash, bridge_tx_hash,
                   target_tx_hash, elapsed, confirmed, calls, collab_err>>

Next ==
    \/ CallValidate
    \/ CallImpact
    \/ CallBuild
    \/ Validate
    \/ SourceTrade
    \/ BridgeTokens
    \/ WaitCheck
    \/ Sleep
    \/ TargetTrade
    \/ RequestCancel

Spec == Init /\ [][Next]_vars

(***************************************************************************)
(* One call of execute_cross_chain_arbitrage driven to its end: the        *)
(* runtime resumes the task when the timer of the sleep fires, and the     *)
(* loop test follows it, so WaitCheck and Sleep are weakly fair.           *)
(***************************************************************************)
ExecInit == Init /\ op = "execute" /\ ~IsNaN(opportunity.net_profit)

ExecNext ==
    \/ Validate
    \/ SourceTrade
    \/ BridgeTokens
    \/ WaitCheck
    \/ Sleep
    \/ TargetTrade
    \/ RequestCancel

LiveSpec == ExecInit /\ [][ExecNext]_vars /\ WF_vars(WaitCheck) /\ WF_vars(Sleep)


(***************************************************************************)
(* Properties.                                                             *)
(***************************************************************************)
NoCalls == [sell |-> 0, bridge |-> 0, poll |-> 0, buy |-> 0]

\* C1: within one flow every collaborator call is made only after the
\* preceding step has returned successfully: the sell only after validation
\* accepted, the bridge only after the sell returned a reference, a
\* confirmation check only after the bridge returned a reference, the buy
\* only after a confirmation check succeeded; and never out of that order.
C1_StepsInOrder ==
    [][op = "execute" =>
         /\ (calls'.sell > calls.sell =>
               validated = "accepted" /\ calls = NoCalls)
         /\ (calls'.bridge > calls.bridge =>
               /\ source_tx_hash # NoHash /\ calls.sell = 1
               /\ calls.poll = 0 /\ calls.buy = 0)
         /\ (calls'.poll > calls.poll =>
               bridge_tx_hash # NoHash /\ calls.bridge = 1 /\ calls.buy = 0)
         /\ (calls'.buy > calls.buy =>
               confirmed /\ calls.poll >= 1 /\ calls.bridge = 1)]_vars

\* C1 witness: a flow that went through every step, with a wait of several checks
C1_Witness ==
    op = "execute" /\ pc = "Completed" /\ calls.poll >= 3 /\ calls.buy = 1

\* C2: a rejected opportunity ends the flow in Rejected with the validation
\* error and without any collaborator call; whenever a collaborator has been
\* called, validate_opportunity accepted the flow's opportunity.
C2_ValidatedBeforeExecuted ==
    op = "execute" =>
        /\ (validated # "none" =>
              validated = (IF validate_opportunity(opportunity).val
                           THEN "accepted" ELSE "rejected"))
        /\ (validated = "rejected" =>
              /\ pc = "Rejected"
              /\ IsErr(ret, "Opportunity validation failed")
              /\ calls = NoCalls)
        /\ (calls # NoCalls => validated = "accepted")
        /\ (pc = "Rejected" => validated = "rejected")

\* C2 witness: a flow rejected by validation
C2_Witness ==
    /\ op = "execute" /\ pc = "Rejected" /\ validated = "rejected"
    /\ FEq(opportunity.net_profit, Fin(0, 1))

\* The safety part of C3: the confirmation timeout is returned only when the
\* elapsed waiting time has reached the deadline of 600 s; a flow that
\* bridged and fails without a confirmation fails with that timeout; checks
\* are at least 10 s apart, so there are at most 600 / 10 of them.
TimeoutOnlyAtDeadline ==
    op = "execute" =>
        /\ (IsErr(ret, "Transaction confirmation timeout") =>
              /\ pc = "Failed" /\ elapsed >= timeout_seconds
              /\ ~confirmed /\ calls.poll >= 1)
        /\ (pc = "Failed" /\ bridge_tx_hash # NoHash /\ ~confirmed =>
              IsErr(ret, "Transaction confirmation timeout"))
        /\ (pc = "ConfirmingBridge" => elapsed >= calls.poll * poll_interval)
        /\ (pc = "Sleeping" => elapsed >= (calls.poll - 1) * poll_interval
                               /\ elapsed < timeout_seconds)
        /\ calls.poll * poll_interval <= timeout_seconds

\* C3: a flow that waits for the bridge confirmation ends the wait with a
\* confirmation or with the confirmation timeout, so with the timeout when
\* no check ever reports finality; and the timeout is produced only once the
\* elapsed time has reached the deadline, never before.
C3_TimeoutAtDeadline ==
    /\ []TimeoutOnlyAtDeadline
    /\ (pc = "ConfirmingBridge")
         ~> (confirmed \/ IsErr(ret, "Transaction confirmation timeout"))

\* C3 witness: a flow whose confirmation checks all failed ends with the timeout
C3_Witness ==
    /\ op = "execute" /\ pc = "Failed"
    /\ IsErr(ret, "Transaction confirmation timeout")
    /\ elapsed >= timeout_seconds

\* C4: a cancellation requested while the flow waits for the bridge
\* confirmation makes the flow end with CancellationRequested.
C4_CancelEndsWait ==
    (op = "execute" /\ cancel_requested /\ pc \in Terminal) =>
        IsErr(ret, "CancellationRequested")

\* C5: an error of the sell, the bridge transfer or the buy is returned as the
\* result of the flow, which is then Failed, and no collaborator of a later
\* step has been called; the failed call was made once.
C5_CollaboratorFailureTerminal ==
    (op = "execute" /\ collab_err # "none") =>
        /\ pc = "Failed"
        /\ IsErr(ret, collab_err)
        /\ (source_tx_hash = NoHash =>
              calls = [sell |-> 1, bridge |-> 0, poll |-> 0, buy |-> 0])
        /\ (source_tx_hash # NoHash /\ bridge_tx_hash = NoHash =>
              calls = [sell |-> 1, bridge |-> 1, poll |-> 0, buy |-> 0])
        /\ (bridge_tx_hash # NoHash =>
              /\ confirmed /\ target_tx_hash = NoHash
              /\ calls.sell = 1 /\ calls.bridge = 1 /\ calls.buy = 1)

\* C5 witness: the bridge transfer failed after a successful sell
C5_Witness ==
    /\ op = "execute" /\ collab_err # "none"
    /\ calls = [sell |-> 1, bridge |-> 1, poll |-> 0, buy |-> 0]

\* C6: a flow whose validation passed, whose sell, bridge and buy succeeded
\* and whose confirmation was observed is Completed, and its result is the
\* non-empty reference the buy returned.
C6_ResultIsTargetReference ==
    op = "execute" =>
        /\ (target_tx_hash # NoHash <=> pc = "Completed")
        /\ (pc = "Completed" =>
              /\ validated = "accepted" /\ confirmed
              /\ source_tx_hash # NoHash /\ bridge_tx_hash # NoHash
              /\ calls.buy = 1
              /\ ret.ok /\ ret.val = target_tx_hash
              /\ Len(ret.val) > 0)

\* C6 witness: a completed flow whose three references differ pairwise
C6_Witness ==
    /\ op = "execute" /\ pc = "Completed"
    /\ target_tx_hash # source_tx_hash
    /\ target_tx_hash # bridge_tx_hash
    /\ calls.poll = 1

\* the four checks as the validator's contract states them
AllChecksHold(o) ==
    /\ FGt(o.net_profit, Fin(0, 1))
    /\ FGe(o.confidence, Fin(7, 10))
    /\ is_valid_address(o.source_pool.address)
    /\ is_valid_address(o.target_pool.address)
    /\ FLe(IF o.source_pool.liquidity = 0
           THEN Fin(1, 1)
           ELSE FDiv(o.required_amount,
                     FAdd(Fin(o.source_pool.liquidity, 1), o.required_amount)),
           Fin(2, 100))

\* C7: validate_opportunity returns Ok(true) exactly when net_profit > 0,
\* confidence >= 0.7, both addresses are valid and impact <= 0.02, and
\* Ok(false) otherwise.
C7_AcceptsIffAllChecks ==
    (op = "validate" /\ pc = "Returned") =>
        ret.ok /\ (ret.val <=> AllChecksHold(opportunity))

\* C7 on opportunities whose net_profit, confidence and impact are not NaN
C7_AcceptsIffAllChecksNoNaN ==
    (/\ op = "validate" /\ pc = "Returned"
     /\ ~IsNaN(opportunity.net_profit) /\ ~IsNaN(opportunity.confidence)
     /\ ~IsNaN(calculate_price_impact(opportunity.required_amount,
                                      U128AsF64(opportunity.source_pool.liquidity)))) =>
        ret.ok /\ (ret.val <=> AllChecksHold(opportunity))

\* C8: secure_transaction_builder fails with the invalid-address error on an
\* unparseable address, else with gas-limit-too-low below 21000, else with
\* gas-price-too-high above 500000000000, else succeeds; a built transaction
\* has gas_limit >= 21000 and gas_price <= 500000000000 and carries the
\* arguments unchanged.
C8_BuilderClassification ==
    (op = "build" /\ pc = "Returned") =>
        LET parses == ParseAddress(tx_args.to).ok
            low    == U64Lt(tx_args.gas_limit, U64(0, 21000))
            high   == U64Gt(tx_args.gas_price, U64(500, 0))
        IN  /\ (~parses => IsErr(ret, "Invalid destination address"))
            /\ (parses /\ low => IsErr(ret, "Gas limit too low"))
            /\ (parses /\ ~low /\ high => IsErr(ret, "Gas price too high"))
            /\ (parses /\ ~low /\ ~high => ret.ok)
            /\ (ret.ok =>
                  /\ ~U64Lt(ret.val.gas_limit, U64(0, 21000))
                  /\ ~U64Gt(ret.val.gas_price, U64(500, 0))
                  /\ ret.val.gas_limit = tx_args.gas_limit
                  /\ ret.val.gas_price = tx_args.gas_price
                  /\ ret.val.value = tx_args.value
                  /\ ret.val.data = tx_args.data
                  /\ ret.val.nonce = tx_args.nonce)

\* C8 witness: the builder succeeded at both boundary values
C8_Witness ==
    /\ op = "build" /\ pc = "Returned" /\ ret.ok
    /\ tx_args.gas_limit = U64(0, 21000)
    /\ tx_args.gas_price = U64(500, 0)

\* C9: the result of calculate_price_impact lies in [0, 1] for every amount
\* and every liquidity (stated here for the finite ones, which is enough to
\* decide it).
C9_ImpactInUnitInterval ==
    (/\ op = "impact" /\ pc = "Returned"
     /\ pi_args.amount.k = "fin" /\ pi_args.liquidity.k = "fin") =>
        FLe(Fin(0, 1), ret.val) /\ FLe(ret.val, Fin(1, 1))

\* C9 restricted to amount >= 0 and liquidity >= 0, where it holds
C9_ImpactInUnitIntervalNonNegative ==
    (/\ op = "impact" /\ pc = "Returned"
     /\ pi_args.amount.k = "fin" /\ pi_args.liquidity.k = "fin"
     /\ pi_args.amount.n >= 0 /\ pi_args.liquidity.n >= 0) =>
        FLe(Fin(0, 1), ret.val) /\ FLe(ret.val, Fin(1, 1))

\* C10: the sell, the bridge transfer and the buy are each submitted at most
\* once; a flow in a terminal state takes no further step; after a
\* confirmation timeout there has been one bridge transfer and no buy.
C10_NoStepReentered ==
    op = "execute" =>
        /\ calls.sell <= 1 /\ calls.bridge <= 1 /\ calls.buy <= 1
        /\ (pc \in Terminal => ~ENABLED Next)
        /\ (pc \in Terminal => ret # Pending)
        /\ (IsErr(ret, "Transaction confirmation timeout") =>
              calls.sell = 1 /\ calls.bridge = 1 /\ calls.buy = 0)

\* C10 witness: a flow that timed out after the full number of checks
C10_Witness ==
    /\ op = "execute" /\ pc = "Failed" /\ collab_err = "none"
    /\ calls.poll * poll_interval = timeout_seconds

====
